---- MODULE Spec2Model ----
(***************************************************************************)
(* Model of the batch renamer "Renban Super" (src/main.py): the class      *)
(* RenbanSuper (selection, six naming strategies, collision-safe rename)   *)
(* and the interactive orchestrator main().                                *)
(*                                                                         *)
(* Strings are sequences of character codes (ASCII), so that formatting,   *)
(* sanitizing and ordering are computed the way Python computes them.      *)
(* A path is the sequence of its components below the root directory:      *)
(* <<name>> is a file of the root, <<SubDir, name>> a file of the          *)
(* subdirectory.  The filesystem is the set of its regular files, each a   *)
(* record [path, id]; id is the identity (content, size, times) of a file. *)
(***************************************************************************)
EXTENDS Integers, Sequences, FiniteSets, TLC

(* ------------------------------ bounds -------------------------------- *)
MaxFiles == 3       \* files in the initial directory tree
MaxFail  == 1       \* injected OS-level rename failures per history
MaxExt   == 1       \* external (concurrent) removals per history

(* ------------------------- character strings -------------------------- *)
s_empty   == <<>>
s_us      == <<95>>                                  \* "_"
s_txt     == <<46,116,120,116>>                      \* ".txt"
s_md      == <<46,109,100>>                          \* ".md"
s_py      == <<46,112,121>>                          \* ".py"
s_html    == <<46,104,116,109,108>>                  \* ".html"
s_css     == <<46,99,115,115>>                       \* ".css"
s_js      == <<46,106,115>>                          \* ".js"
s_docx    == <<46,100,111,99,120>>                   \* ".docx"
s_jpg     == <<46,106,112,103>>                      \* ".jpg"
s_jpeg    == <<46,106,112,101,103>>                  \* ".jpeg"
s_tiff    == <<46,116,105,102,102>>                  \* ".tiff"
s_a_txt   == <<97,46,116,120,116>>                   \* "a.txt"
s_b_txt   == <<98,46,116,120,116>>                   \* "b.txt"
s_c_txt   == <<99,46,116,120,116>>                   \* "c.txt"
s_001_txt == <<48,48,49,46,116,120,116>>             \* "001.txt"
s_002_txt == <<48,48,50,46,116,120,116>>             \* "002.txt"
s_003_txt == <<48,48,51,46,116,120,116>>             \* "003.txt"
s_001_1_txt == <<48,48,49,95,49,46,116,120,116>>     \* "001_1.txt"
s_z       == <<122>>                                 \* "z" (no extension)
s_001     == <<48,48,49>>                            \* "001"
s_a_b     == <<97,32,98>>                            \* "a b"
s_marks   == <<92,47,58,42,63,34,60,62,124>>         \* the text \/:*?"<>|
s_hidden  == <<46,104,105,100,100,101,110,63,110,97,109,101>>   \* ".hidden?name"
s_hidden_name == <<46,104,105,100,100,101,110,95,110,97,109,101>>   \* ".hidden_name"
s_p_jpg   == <<112,46,106,112,103>>                 \* "p.jpg"
s_size    == <<115,105,122,101,95>>                  \* "size_"
s_B       == <<66>>                                  \* "B"
s_AuthorNotSupported == <<65,117,116,104,111,114,78,111,116,83,117,112,112,111,114,116,101,100>>
s_AuthorNotAvailable == <<65,117,116,104,111,114,78,111,116,65,118,97,105,108,97,98,108,101>>
s_UnknownAuthor == <<85,110,107,110,111,119,110,65,117,116,104,111,114>>
s_UnknownArtist == <<85,110,107,110,111,119,110,65,114,116,105,115,116>>
s_AI_Not_Available == <<65,73,95,78,111,116,95,65,118,97,105,108,97,98,108,101>>
s_EmptyFile == <<69,109,112,116,121,70,105,108,101>>
s_SummaryNotSupported == <<83,117,109,109,97,114,121,78,111,116,83,117,112,112,111,114,116,101,100>>
s_AI_Error == <<65,73,95,69,114,114,111,114>>

SubDir == <<97>>                                     \* the subdirectory "a"

(* lexicographic order of two strings by code point (Python str.__lt__)   *)
RECURSIVE StrLT(_, _)
StrLT(a, b) ==
    IF b = <<>> THEN FALSE
    ELSE IF a = <<>> THEN TRUE
    ELSE IF a[1] # b[1] THEN a[1] < b[1]
    ELSE StrLT(Tail(a), Tail(b))

(* decimal digits of a natural number                                      *)
RECURSIVE NatStr(_)
NatStr(n) == IF n < 10 THEN <<48 + n>> ELSE NatStr(n \div 10) \o <<48 + (n % 10)>>

(* str(counter)                                                            *)
IntStr(n) == IF n < 0 THEN <<45>> \o NatStr(0 - n) ELSE NatStr(n)

RECURSIVE Zeros(_)
Zeros(k) == IF k <= 0 THEN <<>> ELSE <<48>> \o Zeros(k - 1)

(* f"{n:0{digits}d}": sign first, then zeros up to the width               *)
(* variant: the width is ignored                                           *)
ZeroPadNoWidth(n, width) == IntStr(n)
ZeroPad(n, width) ==
    LET d == NatStr(IF n < 0 THEN 0 - n ELSE n)
        sign == IF n < 0 THEN <<45>> ELSE <<>>
    IN  sign \o Zeros(width - Len(sign) - Len(d)) \o d

(* str.lower() on ASCII                                                    *)
Lower(s) == [i \in 1..Len(s) |-> IF s[i] >= 65 /\ s[i] <= 90 THEN s[i] + 32 ELSE s[i]]

(* the characters \ / : * ? " < > |                                       *)
InvalidChars == {92, 47, 58, 42, 63, 34, 60, 62, 124}

(* variant: the characters are removed instead of replaced                 *)
_sanitize_filename_strip(name) ==
    LET Keep(c) == c \notin InvalidChars
    IN  SelectSeq(name, Keep)
_sanitize_filename(name) ==
    LET sanitized == [i \in 1..Len(name) |->
                         IF name[i] \in InvalidChars THEN 95 ELSE name[i]]
    IN  IF (Len(name) > 0 /\ name[1] = 46) /\ ~(Len(sanitized) > 0 /\ sanitized[1] = 46)
        THEN <<46>> \o sanitized
        ELSE sanitized

(* index of the last "." of a name, 0 when there is none                   *)
RECURSIVE RFindDot(_, _)
RFindDot(name, i) ==
    IF i = 0 THEN 0 ELSE IF name[i] = 46 THEN i ELSE RFindDot(name, i - 1)

(* pathlib PurePath.suffix and PurePath.stem of a final component          *)
PathSuffix(name) ==
    LET i == RFindDot(name, Len(name))
    IN  IF 1 < i /\ i < Len(name) THEN SubSeq(name, i, Len(name)) ELSE <<>>
PathStem(name) ==
    LET i == RFindDot(name, Len(name))
    IN  IF 1 < i /\ i < Len(name) THEN SubSeq(name, 1, i - 1) ELSE name

(* str.strip() and str.replace(" ", "_")                                   *)
RECURSIVE LStrip(_)
LStrip(s) == IF s # <<>> /\ s[1] = 32 THEN LStrip(Tail(s)) ELSE s
RECURSIVE RStrip(_)
RStrip(s) == IF s # <<>> /\ s[Len(s)] = 32 THEN RStrip(SubSeq(s, 1, Len(s) - 1)) ELSE s
Strip(s) == RStrip(LStrip(s))
ReplaceSpaces(s) == [i \in 1..Len(s) |-> IF s[i] = 32 THEN 95 ELSE s[i]]

(* ------------------------------- paths -------------------------------- *)
(* Path.name, Path.with_name(name)                                         *)
PathName(p) == p[Len(p)]
WithName(p, name) == SubSeq(p, 1, Len(p) - 1) \o <<name>>
Parent(p) == SubSeq(p, 1, Len(p) - 1)

(* str(path) below the root: components joined by "/"                      *)
RECURSIVE FullPath(_)
FullPath(p) ==
    IF Len(p) = 1 THEN p[1] ELSE p[1] \o <<47>> \o FullPath(Tail(p))

(* PurePath.__lt__: the component lists are compared, not the strings      *)
RECURSIVE PathLT(_, _)
PathLT(p, q) ==
    IF q = <<>> THEN FALSE
    ELSE IF p = <<>> THEN TRUE
    ELSE IF p[1] # q[1] THEN StrLT(p[1], q[1])
    ELSE PathLT(Tail(p), Tail(q))

(* ----------------------------- filesystem ----------------------------- *)
Dirs == {<<SubDir>>}                     \* directories below the root

IsFile(f, p) == \E e \in f : e.path = p
Exists(f, p) == p \in Dirs \/ IsFile(f, p)            \* Path.exists()
IdAt(f, p)   == (CHOOSE e \in f : e.path = p).id
Paths(f)     == {e.path : e \in f}
Ids(f)       == {e.id : e \in f}

(* attributes of a file: st_size, st_mtime, st_ctime (seconds, UTC)        *)
SizeOf(id)  == IF id % 3 = 0 THEN 0 ELSE 5
MTimeOf(id) == IF id = 1 THEN 59 ELSE 60
CTimeOf(id) == 3600 + id \div 3

(* the names the initial directory tree is drawn from                      *)
RootNames == {s_a_txt, s_b_txt, s_c_txt, s_001_txt, s_p_jpg}
SubNames  == {s_z}
PathUniverse == {<<n>> : n \in RootNames} \cup {<<SubDir, n>> : n \in SubNames}

(* sorted(files): insertion sort under PurePath.__lt__                     *)
RECURSIVE InsertPath(_, _)
(* variant: the list is left in the order the directory scan produced      *)
InsertPathUnsorted(x, seq) == <<x>> \o seq
InsertPath(x, seq) ==
    IF seq = <<>> THEN <<x>>
    ELSE IF PathLT(x, seq[1]) THEN <<x>> \o seq
    ELSE <<seq[1]>> \o InsertPath(x, Tail(seq))

RECURSIVE SortPaths(_)
SortPaths(S) ==
    IF S = {} THEN <<>>
    ELSE LET x == CHOOSE x \in S : TRUE
         IN  InsertPath(x, SortPaths(S \ {x}))

(* RenbanSuper._get_files: glob or rglob, regular files only, extension    *)
(* filter on the lowercased suffix (no filter when extensions is empty or  *)
(* None, modelled as {}), then sorted                                      *)
_get_files(f, rec, exts) ==
    SortPaths({p \in Paths(f) :
                 /\ (rec \/ Len(p) = 1)
                 /\ (exts = {} \/ Lower(PathSuffix(PathName(p))) \in exts)})

(* ------------------------------- state -------------------------------- *)
VARIABLES
    fs,          \* the regular files of the tree: set of [path, id]
    rootIsDir,   \* Path(directory).is_dir()
    pc,          \* position of the caller and of the run
    caller,      \* "api": methods called directly; "main_dry"/"main_apply"
    dry_run, recursive, extensions, prefix, suffix, ai_model,  \* self.*
    mode,        \* the run_* method in progress
    start, digits, date_type,                                  \* its arguments
    options,     \* main(): the options dict
    confirm,     \* main(): the answer to the confirmation prompt
    files,       \* the list _get_files returned to run_*
    order,       \* the list the loop of run_* iterates over
    idx,         \* 1-based position of the loop in files
    report,      \* one entry per _rename_file call: what was printed / done
    fs0,         \* history: fs when the instance or main() started
    nfail,       \* injected rename failures so far
    next_,       \* external removals so far
    calls,       \* history: what the information sources answered in this pass
    prev,        \* history: the report of the first pass
    pass         \* 1, or 2 when the same method is run a second time

vars == <<fs, rootIsDir, pc, caller, dry_run, recursive, extensions, prefix,
          suffix, ai_model, mode, start, digits, date_type, options, confirm,
          files, order, idx, report, fs0, nfail, next_, calls, prev, pass>>

Modes == {"simple", "date", "size", "author", "ai-summary", "ai-sort"}

(* inputs                                                                  *)
Prefixes   == {s_empty, s_hidden}
Suffixes   == {s_empty}
ExtFilters == {{}, {s_txt}}
SeqArgs    == {<<1, 3>>, <<0, 3>>, <<9, 1>>}   \* (start, digits)
DateTypes  == {"modified", "created"}
NoOptions  == <<>>

(* initial trees: up to MaxFiles files, identities given in path order     *)
InitTrees ==
    {LET seq == SortPaths(S) IN {[path |-> seq[i], id |-> i] : i \in 1..Len(seq)} :
        S \in {T \in SUBSET PathUniverse : Cardinality(T) <= MaxFiles}}

Init ==
    /\ rootIsDir \in BOOLEAN
    /\ fs \in IF rootIsDir THEN InitTrees ELSE {{}}
    /\ pc = "idle"
    /\ caller = "api"
    /\ dry_run = FALSE /\ recursive = FALSE /\ extensions = {}
    /\ prefix = s_empty /\ suffix = s_empty /\ ai_model = FALSE
    /\ mode = "simple" /\ start = 1 /\ digits = 3 /\ date_type = "modified"
    /\ options = NoOptions
    /\ confirm = "none"
    /\ files = <<>> /\ order = <<>> /\ idx = 1 /\ report = <<>>
    /\ fs0 = fs
    /\ nfail = 0 /\ next_ = 0
    /\ calls = <<>> /\ prev = <<>> /\ pass = 1

(* --------------------------- _rename_file ----------------------------- *)
(* variant: every numbered candidate is tried twice                        *)
CandidateRepeat(base, ext, k) ==
    _sanitize_filename(prefix \o base \o suffix
                       \o (IF k = 0 THEN <<>> ELSE s_us \o IntStr((k + 1) \div 2)) \o ext)
(* the k-th candidate name: f"{prefix}{base}{suffix}{ext}" for k = 0 and   *)
(* f"{prefix}{base}{suffix}_{k}{ext}" for k >= 1, sanitized                *)
Candidate(base, ext, k) ==
    _sanitize_filename(prefix \o base \o suffix
                       \o (IF k = 0 THEN <<>> ELSE s_us \o IntStr(k)) \o ext)

(* Path.with_name raises ValueError for an empty name and for "."          *)
InvalidName(name) == name = <<>> \/ name = <<46>>

(* the while loop of _rename_file: new_path and counter are its variables  *)
RECURSIVE ResolveLoop(_, _, _, _, _, _)
ResolveLoop(f, old_path, base, ext, new_path, counter) ==
    IF Exists(f, new_path) /\ new_path # old_path
    THEN ResolveLoop(f, old_path, base, ext,
                     WithName(old_path, Candidate(base, ext, counter)), counter + 1)
    ELSE [path |-> new_path, counter |-> counter]

(* variant: the first candidate is taken without looking at the directory  *)
ResolveTargetNoCheck(f, old_path, base, ext) ==
    [path |-> WithName(old_path, Candidate(base, ext, 0)), counter |-> 1]
(* variant: the counter starts at 2                                        *)
ResolveTargetFrom2(f, old_path, base, ext) ==
    ResolveLoop(f, old_path, base, ext, WithName(old_path, Candidate(base, ext, 0)), 2)
ResolveTarget(f, old_path, base, ext) ==
    ResolveLoop(f, old_path, base, ext, WithName(old_path, Candidate(base, ext, 0)), 1)

(* Path.rename (os.rename, POSIX): OSError when the source is gone, the    *)
(* target is a directory or the system refuses; otherwise the target is    *)
(* replaced                                                                *)
RenameRaises(f, old_path, new_path, fail) ==
    fail \/ ~IsFile(f, old_path) \/ new_path \in Dirs
OsRename(f, old_path, new_path) ==
    IF old_path = new_path THEN f
    ELSE {e \in f : e.path # old_path /\ e.path # new_path}
         \cup {[path |-> new_path, id |-> IdAt(f, old_path)]}

(* variant: the rename is performed in dry-run mode as well                *)
_rename_file_always(f, dry, old_path, base, ext, fail) ==
    LET r      == ResolveTarget(f, old_path, base, ext)
        raises == RenameRaises(f, old_path, r.path, fail)
    IN  [fs    |-> IF raises THEN f ELSE OsRename(f, old_path, r.path),
         entry |-> [old |-> old_path, new |-> r.path, base |-> base, ext |-> ext,
                    tries |-> r.counter - 1,
                    outcome |-> IF dry THEN "dry"
                                ELSE IF raises THEN "error" ELSE "renamed",
                    before |-> f]]
(* one call of _rename_file: the filesystem after it and what it reported  *)
_rename_file(f, dry, old_path, base, ext, fail) ==
    LET r      == ResolveTarget(f, old_path, base, ext)
        raises == RenameRaises(f, old_path, r.path, fail)
    IN  [fs    |-> IF dry \/ raises THEN f ELSE OsRename(f, old_path, r.path),
         entry |-> [old     |-> old_path,
                    new     |-> r.path,
                    base    |-> base,
                    ext     |-> ext,
                    tries   |-> r.counter - 1,
                    outcome |-> IF dry THEN "dry"
                                ELSE IF raises THEN "error" ELSE "renamed",
                    before  |-> f]]

(* ----------------------- information sources -------------------------- *)
s_bob == <<98,111,98>>                               \* an author value

(* what the metadata library can answer for a file                         *)
MetaOutcomes(p) ==
    IF Lower(PathSuffix(PathName(p))) \in {s_docx, s_jpg, s_jpeg, s_tiff}
    THEN {"raise", "none", "absent", "present"} ELSE {"n/a"}

get_file_author(f, filepath, meta) ==
    LET ext == Lower(PathSuffix(PathName(filepath)))
    IN  IF ext = s_docx
        THEN IF meta = "raise" \/ ~IsFile(f, filepath) THEN s_AuthorNotAvailable
             ELSE IF meta = "present" THEN s_bob ELSE s_UnknownAuthor
        ELSE IF ext \in {s_jpg, s_jpeg, s_tiff}
        THEN IF meta = "raise" \/ ~IsFile(f, filepath) THEN s_AuthorNotAvailable
             ELSE IF meta = "none" THEN s_AuthorNotSupported
             ELSE IF meta = "present" THEN s_bob ELSE s_UnknownArtist
        ELSE s_AuthorNotSupported

(* what generate_content can answer: an exception or a text                *)
SummaryTexts == {s_001, <<32>> \o s_a_b \o s_marks}
SummaryExts  == {s_txt, s_md, s_py, s_html, s_css, s_js}
SummaryOutcomes(f, p) ==
    IF ai_model /\ Lower(PathSuffix(PathName(p))) \in SummaryExts
       /\ IsFile(f, p) /\ SizeOf(IdAt(f, p)) > 0
    THEN {[raise |-> TRUE, text |-> <<>>]} \cup {[raise |-> FALSE, text |-> t] : t \in SummaryTexts}
    ELSE {[raise |-> FALSE, text |-> <<>>]}

get_ai_summary(f, filepath, out) ==
    IF ~ai_model THEN s_AI_Not_Available
    ELSE IF Lower(PathSuffix(PathName(filepath))) \in SummaryExts
         THEN IF ~IsFile(f, filepath) THEN s_AI_Error          \* read_text raises
              ELSE IF SizeOf(IdAt(f, filepath)) = 0 THEN s_EmptyFile
              ELSE IF out.raise THEN s_AI_Error
              ELSE ReplaceSpaces(Strip(out.text))
         ELSE s_SummaryNotSupported

(* files[i] for a Python index i (negative indices count from the end)     *)
PyIndexOk(fl, i) == 0 - Len(fl) <= i /\ i < Len(fl)
PyIndex(fl, i)   == IF i >= 0 THEN fl[i + 1] ELSE fl[Len(fl) + i + 1]

(* what the ordering call can answer for n files: an exception (also a     *)
(* text that is not a list of integers), or a list of indices: the lists   *)
(* of length n that start with the last index and end with the first (a    *)
(* reversal, "2,2,0", "2,0,0"), the identity, a list with an index out of  *)
(* range, a list that is too short, and a list of negative indices         *)
OrderLists(n) ==
    {q \in [1..n -> {0, n - 1}] : q[1] = n - 1 /\ q[n] = 0}
    \cup {[i \in 1..n |-> n - i]}
    \cup {[i \in 1..n |-> i - 1]}
    \cup {[i \in 1..n |-> i]}
    \cup {[i \in 1..(n - 1) |-> i - 1]}
    \cup {[i \in 1..n |-> 0 - i]}
OrderOutcomes(ai, n) ==
    IF ~ai THEN {[raise |-> FALSE, idxs |-> <<>>]}
    ELSE {[raise |-> TRUE, idxs |-> <<>>]}
         \cup (IF n = 0 THEN {} ELSE {[raise |-> FALSE, idxs |-> q] : q \in OrderLists(n)})

(* variant: the fallback returns the selection reversed                    *)
sort_files_by_ai_reversed(fl, ai, out) ==
    IF ~ai \/ out.raise THEN [i \in 1..Len(fl) |-> fl[Len(fl) + 1 - i]]
    ELSE IF Len(out.idxs) = Len(fl)
         THEN IF \E i \in 1..Len(fl) : ~PyIndexOk(fl, out.idxs[i])
              THEN fl
              ELSE [i \in 1..Len(fl) |-> PyIndex(fl, out.idxs[i])]
         ELSE fl
sort_files_by_ai(fl, ai, out) ==
    IF ~ai THEN fl
    ELSE IF out.raise THEN fl
    ELSE IF Len(out.idxs) = Len(fl)
         THEN IF \E i \in 1..Len(fl) : ~PyIndexOk(fl, out.idxs[i])
              THEN fl                                   \* IndexError, caught
              ELSE [i \in 1..Len(fl) |-> PyIndex(fl, out.idxs[i])]
         ELSE fl

(* datetime.fromtimestamp(ts).strftime("%H%M%S"), UTC                      *)
FormatTime(ts) ==
    ZeroPad((ts \div 3600) % 24, 2) \o ZeroPad((ts \div 60) % 60, 2) \o ZeroPad(ts % 60, 2)

(* ------------------------------ actions ------------------------------- *)
cfgVars == <<dry_run, recursive, extensions, prefix, suffix, ai_model>>
argVars == <<mode, start, digits, date_type>>
envVars == <<rootIsDir, fs0, next_>>
histVars == <<calls, prev, pass>>

(* variant: the constructor does not test is_dir                           *)
ConstructUnchecked ==
    /\ pc = "idle"
    /\ \E dry \in BOOLEAN, rec \in BOOLEAN, exts \in ExtFilters,
          pre \in Prefixes, suf \in Suffixes, ai \in BOOLEAN :
         /\ dry_run' = dry /\ recursive' = rec /\ extensions' = exts
         /\ prefix' = pre /\ suffix' = suf
         /\ pc' = "ready" /\ ai_model' = ai
    /\ caller' = "api"
    /\ UNCHANGED <<fs, argVars, options, confirm, files, order, idx, report, nfail, envVars, histVars>>
(* RenbanSuper(directory, dry_run, recursive, extensions, prefix, suffix)  *)
(* called directly; ai is what _setup_ai returns (a model or None)         *)
Construct ==
    /\ pc = "idle"
    /\ \E dry \in BOOLEAN, rec \in BOOLEAN, exts \in ExtFilters,
          pre \in Prefixes, suf \in Suffixes, ai \in BOOLEAN :
         /\ dry_run' = dry /\ recursive' = rec /\ extensions' = exts
         /\ prefix' = pre /\ suffix' = suf
         /\ IF rootIsDir
            THEN pc' = "ready" /\ ai_model' = ai
            ELSE pc' = "ctor_failed" /\ ai_model' = FALSE   \* FileNotFoundError
    /\ caller' = "api"
    /\ UNCHANGED <<fs, argVars, options, confirm, files, order, idx, report, nfail, envVars, histVars>>

(* the first two lines of a run_* method: the selection and, for ai-sort,  *)
(* its reordering                                                          *)
Selection(f, rec, exts) == _get_files(f, rec, exts)
Ordering(m, fl, ai, out) == IF m = "ai-sort" THEN sort_files_by_ai(fl, ai, out) ELSE fl
(* history: the answer of the ordering call of this pass                   *)
OrderLog(m, out) ==
    IF m = "ai-sort" THEN <<[fn |-> "order", raise |-> out.raise, idxs |-> out.idxs]>>
    ELSE <<>>

(* the strategies an instance is used for: the strategies that do not read *)
(* ai_model are followed on instances without a model only                 *)
ModesOf(ai) == IF ai THEN {"ai-summary", "ai-sort"} ELSE Modes
SeqArgsOf(m) ==
    IF m = "simple" THEN SeqArgs
    ELSE IF m = "ai-sort" THEN {<<1, 3>>, <<9, 1>>}
    ELSE {<<1, 3>>}

(* run_<m>(...) called directly on a constructed instance                  *)
CallRun ==
    /\ pc = "ready"
    /\ \E m \in ModesOf(ai_model) :
         /\ mode' = m
         /\ \E sd \in SeqArgsOf(m),
               dt \in (IF m = "date" THEN DateTypes ELSE {"modified"}) :
              start' = sd[1] /\ digits' = sd[2] /\ date_type' = dt
         /\ files' = Selection(fs, recursive, extensions)
         /\ \E out \in (IF m = "ai-sort" THEN OrderOutcomes(ai_model, Len(files'))
                        ELSE {[raise |-> FALSE, idxs |-> <<>>]}) :
              /\ order' = Ordering(m, files', ai_model, out)
              /\ calls' = OrderLog(m, out)
    /\ idx' = 1
    /\ pc' = "running"
    /\ UNCHANGED <<fs, caller, cfgVars, options, confirm, report, nfail, envVars, prev, pass>>

(* an exception leaves the loop: it reaches the caller of run_*, and in    *)
(* main() the handler "except Exception"                                   *)
Abort ==
    /\ pc' = IF caller = "api" THEN "aborted" ELSE "main_failed"
    /\ UNCHANGED <<fs, caller, cfgVars, argVars, options, confirm, files, order, idx,
                   report, nfail, envVars, histVars>>

(* one iteration of a loop "for old_path in files": the call of            *)
(* _rename_file with the base name the strategy computed                   *)
IterateLog(base, fail, log) ==
    LET old_path == order[idx]
        ext      == PathSuffix(PathName(old_path))
    IN  IF InvalidName(Candidate(base, ext, 0))
        THEN Abort                                      \* ValueError in with_name
        ELSE LET r == _rename_file(fs, dry_run, old_path, base, ext, fail)
             IN  /\ fs' = r.fs
                 /\ report' = Append(report, r.entry)
                 /\ idx' = idx + 1
                 /\ nfail' = IF fail THEN nfail + 1 ELSE nfail
                 /\ calls' = log
                 /\ UNCHANGED <<pc, caller, cfgVars, argVars, options, confirm,
                                files, order, envVars, prev, pass>>

Iterate(base, fail) == IterateLog(base, fail, calls)

InLoop(m) == pc = "running" /\ mode = m /\ idx <= Len(order)
Failures == {FALSE} \cup (IF ~dry_run /\ nfail < MaxFail /\ pass = 1 THEN {TRUE} ELSE {})

StepSimple ==
    /\ InLoop("simple")
    /\ \E fail \in Failures : Iterate(ZeroPad(start + (idx - 1), digits), fail)

StepDate ==
    /\ InLoop("date")
    /\ IF ~IsFile(fs, order[idx])
       THEN Abort                                       \* stat raises
       ELSE LET id == IdAt(fs, order[idx])
                ts == IF date_type = "created" THEN CTimeOf(id) ELSE MTimeOf(id)
            IN  \E fail \in Failures : Iterate(FormatTime(ts), fail)

StepSize ==
    /\ InLoop("size")
    /\ IF ~IsFile(fs, order[idx])
       THEN Abort                                       \* stat raises
       ELSE \E fail \in Failures :
              Iterate(s_size \o IntStr(SizeOf(IdAt(fs, order[idx]))) \o s_B, fail)

StepAuthor ==
    /\ InLoop("author")
    /\ \E meta \in MetaOutcomes(order[idx]), fail \in Failures :
         LET author == get_file_author(fs, order[idx], meta)
         IN  IterateLog(author \o s_us \o PathStem(PathName(order[idx])), fail,
                        Append(calls, [fn |-> "author", path |-> order[idx],
                                       meta |-> meta, gone |-> ~IsFile(fs, order[idx]),
                                       result |-> author]))

StepAiSummary ==
    /\ InLoop("ai-summary")
    /\ \E out \in SummaryOutcomes(fs, order[idx]), fail \in Failures :
         Iterate(get_ai_summary(fs, order[idx], out), fail)

StepAiSort ==
    /\ InLoop("ai-sort")
    /\ \E fail \in Failures : Iterate(ZeroPad(start + (idx - 1), digits), fail)

(* main(): the answers to the prompts; get_folder_path returns only an     *)
(* existing directory                                                      *)
OptionsFor(m, pre, suf, st, dg, dt) ==
    IF m = "simple" \/ m = "ai-sort"
    THEN [prefix |-> pre, suffix |-> suf, start |-> st, digits |-> dg]
    ELSE IF m = "date"
    THEN [prefix |-> pre, suffix |-> suf, date_type |-> dt, date_format |-> "%H%M%S"]
    ELSE [prefix |-> pre, suffix |-> suf]

MainConfigure ==
    /\ pc = "idle"
    /\ rootIsDir
    /\ \E m \in Modes, pre \in Prefixes, suf \in Suffixes :
         /\ mode' = m
         /\ \E sd \in SeqArgsOf(m),
               dt \in (IF m = "date" THEN DateTypes ELSE {"modified"}) :
              options' = OptionsFor(m, pre, suf, sd[1], sd[2], dt)
    /\ caller' = "main_dry"
    /\ pc' = "main_configured"
    /\ UNCHANGED <<fs, cfgVars, start, digits, date_type, confirm, files, order, idx,
                   report, nfail, envVars, histVars>>

(* Ctrl-C at one of the prompts                                            *)
MainInterrupt ==
    /\ pc = "idle"
    /\ caller' = "main_dry"
    /\ pc' = "main_interrupted"
    /\ UNCHANGED <<fs, cfgVars, argVars, options, confirm, files, order, idx, report,
                   nfail, envVars, histVars>>

(* the keyword parameters of __init__ and of the run_* methods             *)
InitParams == {"dry_run", "recursive", "extensions", "prefix", "suffix"}
RunParams(m) ==
    IF m = "simple" \/ m = "ai-sort" THEN {"start", "digits"}
    ELSE IF m = "date" THEN {"date_type", "date_format"}
    ELSE {}

(* the options dict, passed as keyword arguments, binds to __init__ (next  *)
(* to dry_run) and to the run_* method of the mode                         *)
CtorBinds(opts)   == DOMAIN opts \subseteq (InitParams \ {"dry_run"})
RunBinds(m, opts) == DOMAIN opts \subseteq RunParams(m)

(* construction and run of a renamer by main(), with the options dict;     *)
(* binds: both calls accept the keyword arguments                          *)
MainRunWith(dry, nextCaller, binds) ==
    IF ~binds \/ ~rootIsDir
    THEN /\ pc' = "main_failed"                          \* TypeError, FileNotFoundError
         /\ UNCHANGED <<fs, caller, cfgVars, argVars, options, files, order, idx,
                        report, nfail, envVars, histVars>>
    ELSE /\ dry_run' = dry
         /\ recursive' = FALSE /\ extensions' = {}
         /\ prefix' = options.prefix /\ suffix' = options.suffix
         /\ \E ai \in BOOLEAN :
              /\ ai_model' = ai
              /\ files' = Selection(fs, FALSE, {})
              /\ \E out \in (IF mode = "ai-sort"
                             THEN OrderOutcomes(ai, Len(files'))
                             ELSE {[raise |-> FALSE, idxs |-> <<>>]}) :
                   /\ order' = Ordering(mode, files', ai, out)
                   /\ calls' = OrderLog(mode, out)
         /\ start' = (IF "start" \in DOMAIN options THEN options.start ELSE 1)
         /\ digits' = (IF "digits" \in DOMAIN options THEN options.digits ELSE 3)
         /\ date_type' = (IF "date_type" \in DOMAIN options
                          THEN options.date_type ELSE "modified")
         /\ idx' = 1
         /\ caller' = nextCaller
         /\ pc' = "running"
         /\ UNCHANGED <<fs, mode, options, report, nfail, envVars, prev, pass>>

MainRun(dry, nextCaller) ==
    MainRunWith(dry, nextCaller, CtorBinds(options) /\ RunBinds(mode, options))

(* variant: each call is given only the options it accepts, and the first  *)
(* renamer is built without dry_run=True                                   *)
MainDryRunApplies ==
    /\ pc = "main_configured"
    /\ MainRunWith(FALSE, "main_dry", TRUE)
    /\ UNCHANGED confirm
(* main(): the dry-run block                                               *)
MainDryRun ==
    /\ pc = "main_configured"
    /\ MainRun(TRUE, "main_dry")
    /\ UNCHANGED confirm

Answers   == {"y", "yes", "", "n"}
YesAnswers == {"y", "yes", ""}

(* the loop of run_* is over: the method returns; main() then asks for     *)
(* confirmation after the dry run, and is done after the apply run         *)
RunReturn ==
    /\ pc = "running"
    /\ idx > Len(order)
    /\ IF caller = "api"
       THEN /\ pc' = "done"
            /\ UNCHANGED <<fs, caller, cfgVars, argVars, options, confirm, files,
                           order, idx, report, nfail, envVars, histVars>>
       ELSE IF caller = "main_dry"
       THEN \E ans \in Answers :
              /\ confirm' = ans
              /\ IF ans \in YesAnswers
                 THEN MainRun(FALSE, "main_apply")
                 ELSE /\ pc' = "main_cancelled"
                      /\ UNCHANGED <<fs, caller, cfgVars, argVars, options, files,
                                     order, idx, report, nfail, envVars, histVars>>
       ELSE /\ pc' = "main_done"
            /\ UNCHANGED <<fs, caller, cfgVars, argVars, options, confirm, files,
                           order, idx, report, nfail, envVars, histVars>>

(* the same method is run a second time on the directory as the first run *)
(* left it: on the same instance, or (as main() does after a dry run) on a *)
(* new instance that differs in dry_run only.  A second run is followed    *)
(* when the first one met no failure, for instances without an AI model    *)
(* (whose answers are not repeatable), and without failures of its own.    *)
SecondPass ==
    /\ pc = "done"
    /\ pass = 1
    /\ nfail = 0 /\ next_ = 0
    /\ ~ai_model
    /\ \E dry \in (IF dry_run THEN BOOLEAN ELSE {FALSE}) : dry_run' = dry
    /\ files' = Selection(fs, recursive, extensions)
    /\ \E out \in (IF mode = "ai-sort" THEN OrderOutcomes(ai_model, Len(files'))
                   ELSE {[raise |-> FALSE, idxs |-> <<>>]}) :
         /\ order' = Ordering(mode, files', ai_model, out)
         /\ calls' = OrderLog(mode, out)
    /\ idx' = 1
    /\ prev' = report
    /\ report' = <<>>
    /\ pass' = 2
    /\ pc' = "running"
    /\ UNCHANGED <<fs, caller, recursive, extensions, prefix, suffix, ai_model,
                   argVars, options, confirm, nfail, envVars>>

(* another process removes the file the loop is about to handle            *)
ExtRemove ==
    /\ pc = "running"
    /\ pass = 1
    /\ next_ < MaxExt
    /\ idx <= Len(order)
    /\ IsFile(fs, order[idx])
    /\ fs' = {e \in fs : e.path # order[idx]}
    /\ next_' = next_ + 1
    /\ UNCHANGED <<rootIsDir, fs0, pc, caller, cfgVars, argVars, options, confirm, histVars,
                   files, order, idx, report, nfail>>

Next ==
    \/ Construct
    \/ CallRun
    \/ StepSimple
    \/ StepDate
    \/ StepSize
    \/ StepAuthor
    \/ StepAiSummary
    \/ StepAiSort
    \/ RunReturn
    \/ SecondPass
    \/ MainConfigure
    \/ MainInterrupt
    \/ MainDryRun
    \/ ExtRemove

Spec == Init /\ [][Next]_vars

(* ----------------------------- properties ----------------------------- *)
NoExternalChange == next_ = 0
Entries == {report[i] : i \in DOMAIN report}

(* the path of file id in filesystem f                                     *)
PathOf(f, id) == (CHOOSE e \in f : e.id = id).path

(* the k-th candidate path of an entry is free, or is the source itself    *)
FreeFor(e, k) ==
    LET c == WithName(e.old, Candidate(e.base, e.ext, k))
    IN  ~Exists(e.before, c) \/ c = e.old

(* value of a string of decimal digits                                     *)
RECURSIVE DecValue(_)
DecValue(d) ==
    IF d = <<>> THEN 0
    ELSE 10 * DecValue(SubSeq(d, 1, Len(d) - 1)) + (d[Len(d)] - 48)

(* C1: in apply mode and without external change, every rename performed   *)
(* targets a path that did not exist at that moment or the source itself,  *)
(* so no file is overwritten: the files of the tree are the same files, on *)
(* pairwise distinct paths, each in the directory it was in.               *)
C1_NoOverwrite ==
    (~dry_run /\ NoExternalChange) =>
        /\ \A e \in Entries :
               e.outcome = "renamed" => (~Exists(e.before, e.new) \/ e.new = e.old)
        /\ Ids(fs) = Ids(fs0)
        /\ Cardinality(Paths(fs)) = Cardinality(fs0)
        /\ \A id \in Ids(fs0) : Parent(PathOf(fs, id)) = Parent(PathOf(fs0, id))

(* C1 witness: an apply run is over in which two files were planned with   *)
(* the same name and both were renamed, to different paths                 *)
C1_Witness ==
    /\ pc = "done" /\ ~dry_run /\ NoExternalChange
    /\ \E i, j \in DOMAIN report :
         /\ i # j
         /\ report[i].old # report[j].old
         /\ report[i].outcome = "renamed" /\ report[j].outcome = "renamed"
         /\ Candidate(report[i].base, report[i].ext, 0) = Candidate(report[j].base, report[j].ext, 0)
         /\ report[i].new # report[j].new
         /\ report[j].tries > 0

(* C2: in dry-run mode the filesystem stays as it was (no external         *)
(* change), whatever the strategy.                                         *)
C2_DryRunPurity ==
    (dry_run /\ NoExternalChange) => fs = fs0

(* C2 witness: a dry run is over that reported a new name for two files    *)
C2_Witness ==
    /\ pc = "done" /\ dry_run /\ NoExternalChange
    /\ Len(report) >= 2
    /\ \A e \in Entries : e.outcome = "dry" /\ e.new # e.old

(* C3: under main(), a rename is performed, and the filesystem differs     *)
(* from its initial state, only in the apply pass that follows an          *)
(* affirmative answer.                                                     *)
C3_NoRenameBeforeConfirmation ==
    (caller # "api" /\ NoExternalChange) =>
        ((fs # fs0 \/ \E e \in Entries : e.outcome # "dry")
            => (caller = "main_apply" /\ confirm \in YesAnswers))

(* C3 witness: main() failed before the confirmation, on a directory with  *)
(* files, and the filesystem is unchanged                                  *)
C3_Witness ==
    /\ pc = "main_failed" /\ caller = "main_dry" /\ confirm = "none"
    /\ fs # {} /\ fs = fs0

(* C4 as stated: main() fails only on a setup error (bad root directory).  *)
C4_FailedOnlySetupError ==
    pc = "main_failed" => ~rootIsDir

(* C5 as stated: in apply mode a run processes every file of its           *)
(* selection, whatever fails for one of them.                              *)
C5_BatchNeverAborted ==
    (~dry_run /\ pc \in {"done", "aborted"}) => Len(report) = Len(order)

(* C6 as stated: ai-sort numbers every selected file exactly once (the     *)
(* list it iterates is the selection, reordered or not).                   *)
C6_EveryFileOnce ==
    (mode = "ai-sort" /\ pc = "running") =>
        /\ Len(order) = Len(files)
        /\ \A i \in DOMAIN files : \E j \in DOMAIN order : order[j] = files[i]

(* C7 as stated: within one pass, dry-run or apply, no two distinct source *)
(* files are resolved to the same final path.                              *)
C7_DistinctTargets ==
    \A i, j \in DOMAIN report :
        (/\ i # j
         /\ report[i].old # report[j].old
         /\ report[i].outcome # "error" /\ report[j].outcome # "error"
         /\ (report[i].outcome = "dry") = (report[j].outcome = "dry"))
        => report[i].new # report[j].new

(* C8: the final path of every call is the candidate of the least k whose  *)
(* path does not exist, or is the source path itself.                      *)
C8_LeastFreeCandidate ==
    \A e \in Entries :
        \E k \in 0..(Cardinality(e.before) + 1) :
            /\ e.new = WithName(e.old, Candidate(e.base, e.ext, k))
            /\ FreeFor(e, k)
            /\ \A j \in 0..(k - 1) : ~FreeFor(e, j)

(* C8 witness: 001.txt exists and two files are planned as 001: the file   *)
(* itself keeps 001.txt and the other one gets 001_1.txt                   *)
C8_Witness ==
    /\ prefix = s_empty /\ suffix = s_empty
    /\ \E i, j \in DOMAIN report :
         /\ report[i].old = <<s_001_txt>> /\ report[i].base = s_001
         /\ report[i].new = <<s_001_txt>>
         /\ report[j].old = <<s_a_txt>> /\ report[j].base = s_001
         /\ report[j].new = <<s_001_1_txt>>

(* C9: run_simple gives the file at position i (0-based) of the selection  *)
(* the base name start+i in decimal, padded with zeros to digits           *)
(* characters, one entry per file.                                         *)
C9_SequentialBase ==
    (caller = "api" /\ mode = "simple" /\ pc \in {"running", "done"}) =>
        /\ Len(report) = idx - 1
        /\ \A i \in DOMAIN report :
             LET b == report[i].base
                 n == start + (i - 1)
             IN  /\ report[i].old = files[i]
                 /\ \A c \in DOMAIN b : b[c] >= 48 /\ b[c] <= 57
                 /\ DecValue(b) = n
                 /\ Len(b) = IF Len(NatStr(n)) > digits THEN Len(NatStr(n)) ELSE digits

(* C9 witness: a.txt, b.txt, c.txt with start=1 and digits=3 were planned  *)
(* as 001.txt, 002.txt, 003.txt                                            *)
C9_Witness ==
    /\ mode = "simple" /\ pc = "done" /\ start = 1 /\ digits = 3
    /\ prefix = s_empty /\ suffix = s_empty
    /\ Len(report) = 3
    /\ report[1].old = <<s_a_txt>> /\ report[1].new = <<s_001_txt>>
    /\ report[2].old = <<s_b_txt>> /\ report[2].new = <<s_002_txt>>
    /\ report[3].old = <<s_c_txt>> /\ report[3].new = <<s_003_txt>>

(* C10 as stated: the selection is sorted ascending by full path string.   *)
C10_SortedByPathString ==
    \A i \in 1..(Len(files) - 1) : StrLT(FullPath(files[i]), FullPath(files[i + 1]))

(* C10 amended: the selection is sorted ascending by path components; in   *)
(* non-recursive mode this is the order of the full path strings.          *)
C10_SortedByComponents ==
    /\ \A i \in 1..(Len(files) - 1) : PathLT(files[i], files[i + 1])
    /\ ~recursive => C10_SortedByPathString

(* C10 witness: a recursive selection holding a file of the subdirectory   *)
(* and files of the root                                                   *)
C10_Witness ==
    /\ pc = "running" /\ recursive
    /\ Len(files) >= 3
    /\ \E i \in DOMAIN files : Len(files[i]) = 2
    /\ \E i \in DOMAIN files : Len(files[i]) = 1

(* C11 as stated: computing a base name never aborts the batch: no run_*   *)
(* method is left by an exception, whatever the information source (stat,  *)
(* metadata, AI) does for a file.                                          *)
C11_StrategyTotal ==
    caller = "api" => pc # "aborted"

(* C12: when the root is not an existing directory, construction fails and *)
(* nothing runs: no selection, no ordering or information call, no call of *)
(* the renamer, and the filesystem is as it was.                           *)
C12_SetupErrorAborts ==
    ~rootIsDir =>
        /\ pc \in {"idle", "ctor_failed", "main_interrupted"}
        /\ files = <<>> /\ order = <<>> /\ calls = <<>>
        /\ report = <<>> /\ prev = <<>> /\ pass = 1
        /\ fs = fs0

(* C12 witness: the constructor was called on a root that is not a         *)
(* directory and raised                                                    *)
C12_Witness ==
    /\ ~rootIsDir /\ pc = "ctor_failed" /\ caller = "api"
    /\ report = <<>> /\ fs = fs0

(* the outcome of one logged call of get_file_author                       *)
AuthorCalls == {calls[i] : i \in {j \in DOMAIN calls : calls[j].fn = "author"}}
AuthorKind(c) ==
    IF c.meta = "n/a" THEN "unsupported"
    ELSE IF c.meta = "raise" \/ c.gone THEN "failed"
    ELSE IF c.meta = "present" THEN "present"
    ELSE "absent"

(* C13 as stated: two calls of get_file_author with different outcomes     *)
(* (format unsupported, author absent, extraction failed, author present)  *)
(* never return the same string.                                           *)
C13_DistinctPlaceholders ==
    \A c, d \in AuthorCalls :
        AuthorKind(c) # AuthorKind(d) => c.result # d.result

(* the name handed to the sanitizer for the final candidate of an entry    *)
RawName(e) ==
    prefix \o e.base \o suffix
    \o (IF e.tries = 0 THEN <<>> ELSE s_us \o IntStr(e.tries)) \o e.ext

(* C14: the sanitized name has the length of its input; each of the nine   *)
(* characters \ / : * ? " < > | of the input is '_' (95) in the output and *)
(* every other character is unchanged; a leading '.' stays; sanitizing the *)
(* output again changes nothing.                                           *)
C14_Sanitizer ==
    \A e \in Entries :
        LET raw == RawName(e)
            out == PathName(e.new)
        IN  /\ out = _sanitize_filename(raw)
            /\ Len(out) = Len(raw)
            /\ \A i \in DOMAIN raw :
                   out[i] = IF raw[i] \in {92, 47, 58, 42, 63, 34, 60, 62, 124}
                            THEN 95 ELSE raw[i]
            /\ (raw # <<>> /\ raw[1] = 46) => out[1] = 46
            /\ _sanitize_filename(out) = out

(* C14 witness: with the prefix ".hidden?name" a file was given a name     *)
(* that starts with ".hidden_name", from a base name that holds each of    *)
(* the nine characters                                                     *)
C14_Witness ==
    /\ prefix = s_hidden
    /\ \E e \in Entries :
         /\ SubSeq(PathName(e.new), 1, Len(s_hidden_name)) = s_hidden_name
         /\ \A c \in {92, 47, 58, 42, 63, 34, 60, 62, 124} :
                (\E i \in DOMAIN e.base : e.base[i] = c)
                /\ (\A i \in DOMAIN PathName(e.new) : PathName(e.new)[i] # c)

(* the second run follows a first run of the given kind, on the directory  *)
(* as that run left it                                                     *)
AfterDryPass   == pass = 2 /\ \A i \in DOMAIN prev : prev[i].outcome = "dry"
AfterApplyPass == pass = 2 /\ \A i \in DOMAIN prev : prev[i].outcome = "renamed"

(* C15: a second dry run of the sequential strategy on the unmodified      *)
(* directory plans, position by position, the (old, final) pairs of the    *)
(* first, over the same selection.                                         *)
C15_DryRunTwice ==
    (mode = "simple" /\ dry_run /\ AfterDryPass) =>
        /\ Len(files) = Len(prev)
        /\ \A i \in DOMAIN report :
               /\ i \in DOMAIN prev
               /\ report[i].old = prev[i].old
               /\ report[i].new = prev[i].new

(* C15 witness: the second dry run is over; both runs planned a new name   *)
(* for three files                                                         *)
C15_Witness ==
    /\ mode = "simple" /\ dry_run /\ AfterDryPass /\ pc = "done"
    /\ Len(prev) = 3 /\ Len(report) = 3
    /\ \A i \in DOMAIN report : report[i].new # report[i].old

(* C16 as stated, for the strategies whose base names are a function of    *)
(* the directory: the name a file receives in the apply run that follows a *)
(* dry run is the name the dry run reported for it.                        *)
C16_PreviewFidelity ==
    (mode # "author" /\ ~dry_run /\ AfterDryPass) =>
        \A i \in DOMAIN report :
            \E j \in DOMAIN prev :
                prev[j].old = report[i].old /\ prev[j].new = report[i].new

(* C17 as stated: after an apply run of run_simple, a second apply run     *)
(* with the same configuration renames no file to another name.            *)
C17_ApplyIdempotent ==
    (mode = "simple" /\ ~dry_run /\ AfterApplyPass) =>
        \A e \in Entries : e.new = e.old

(* C18: when no model is available or the ordering call raises, ai-sort    *)
(* iterates the selection in its order and hands every file to the renamer *)
(* with the base name run_simple gives it, so that the planned or applied  *)
(* name is the one run_simple produces in that directory state.            *)
C18_AiSortFallback ==
    (mode = "ai-sort" /\ pc \in {"running", "done"}
        /\ calls # <<>> /\ (~ai_model \/ calls[1].raise)) =>
        /\ order = files
        /\ Len(report) = idx - 1
        /\ \A i \in DOMAIN report :
             LET e == report[i]
                 b == ZeroPad(start + (i - 1), digits)
                 x == PathSuffix(PathName(files[i]))
             IN  /\ e.old = files[i]
                 /\ e.base = b /\ e.ext = x
                 /\ e.new = _rename_file(e.before, e.outcome = "dry", files[i], b, x,
                                         FALSE).entry.new

(* C18 witness: the ordering call raised and the apply run renamed three   *)
(* files a.txt, b.txt, c.txt to 001.txt, 002.txt, 003.txt                  *)
C18_Witness ==
    /\ mode = "ai-sort" /\ pc = "done" /\ ~dry_run
    /\ ai_model /\ calls # <<>> /\ calls[1].raise
    /\ start = 1 /\ digits = 3 /\ prefix = s_empty
    /\ Len(report) = 3
    /\ report[1].old = <<s_a_txt>> /\ report[1].new = <<s_001_txt>>
    /\ report[2].old = <<s_b_txt>> /\ report[2].new = <<s_002_txt>>
    /\ report[3].old = <<s_c_txt>> /\ report[3].new = <<s_003_txt>>
    /\ \A i \in DOMAIN report : report[i].outcome = "renamed"

(* the entries (files and directories) of directory d in filesystem f      *)
DirEntries(f, d) == {p \in Paths(f) \cup Dirs : Parent(p) = d}

(* C19: the loop of every call ended; the candidates it tried are pairwise *)
(* distinct names, each rejected one is an entry of the source's directory *)
(* that is not the source, and the number of iterations is at most the     *)
(* number of entries of that directory.                                    *)
C19_LoopTerminates ==
    \A e \in Entries :
        LET d == DirEntries(e.before, Parent(e.old))
        IN  /\ e.tries <= Cardinality(d)
            /\ \A j, k \in 0..e.tries :
                   j # k => Candidate(e.base, e.ext, j) # Candidate(e.base, e.ext, k)
            /\ \A k \in 0..(e.tries - 1) :
                   /\ WithName(e.old, Candidate(e.base, e.ext, k)) \in d
                   /\ WithName(e.old, Candidate(e.base, e.ext, k)) # e.old

(* C19 witness: a call whose loop ran twice before it found a free name    *)
C19_Witness ==
    \E e \in Entries :
        /\ e.tries = 2
        /\ e.outcome = "renamed"
        /\ ~Exists(e.before, e.new)

====
